---- MODULE Spec2Model ----
(***************************************************************************)
(* A model of the path-utils crate: the string normaliser                  *)
(* (normalize_path_str, normalize_path_buf, join_and_normalize), the       *)
(* validator (is_safe_path, validate_path) and the sanitizer               *)
(* (sanitize_directory_file_path).                                         *)
(*                                                                         *)
(* A Rust string is a sequence of Unicode scalar values, written here as   *)
(* their code points (47 is '/', 92 is '\', 46 is '.', 0 is NUL).  A path  *)
(* (Path, PathBuf) is a sequence of units; a unit that is no scalar value  *)
(* stands for an ill-formed byte of an OsStr.                              *)
(***************************************************************************)
EXTENDS Integers, Sequences, FiniteSets, TLC

VARIABLES windows, a, b, c, pc, out, prev,
          workdir, target_path, file_path, fs, canon_calls, frame

\* The arguments, the filesystem and the locals of safe_repository_join.
repo_vars == <<workdir, target_path, file_path, fs, canon_calls, frame>>

vars == <<windows, a, b, c, pc, out, prev, repo_vars>>

(***************************************************************************)
(* Characters named by the code.                                           *)
(***************************************************************************)
Slash == 47
Backslash == 92
Dot == 46
Colon == 58
Nul == 0
Newline == 10
Tab == 9
ReplacementChar == 65533

\* '<', '>', '|', '?', '*', '"'
invalid_chars == <<60, 62, 124, 63, 42, 34>>

\* "CON", "PRN", "AUX", "NUL", "COM1".."COM9", "LPT1".."LPT9"
reserved_names ==
    { <<67, 79, 78>>, <<80, 82, 78>>, <<65, 85, 88>>, <<78, 85, 76>> }
    \cup { <<67, 79, 77, d>> : d \in 49..57 }
    \cup { <<76, 80, 84, d>> : d \in 49..57 }

(***************************************************************************)
(* Bounds of the model: inputs are concatenations of at most MaxFrags      *)
(* fragments (single-string operations) and three strings of at most       *)
(* MaxJoinLen characters together (joins).                                 *)
(***************************************************************************)
MaxFrags == 3
MaxJoinLen == 4
MaxRawFrags == 2
MaxTargetLen == 3
MaxAllRawFrags == 1
MaxAllTargetLen == 1
MaxSafeJoinFrags == 5
MaxThreads == 2

\* "/", "\", ".", "a", "-", "CON", "Lpt1", NUL, U+0001, "\n", " ", "<", ":"
PathFragments ==
    { <<Slash>>, <<Backslash>>, <<Dot>>, <<97>>, <<45>>, <<67, 79, 78>>,
      <<76, 112, 116, 49>>, <<Nul>>, <<1>>, <<Newline>>, <<32>>, <<60>>,
      <<Colon>> }

\* "a", "/", "\", "."
JoinFragments == { <<97>>, <<Slash>>, <<Backslash>>, <<Dot>> }

\* "/", ".", "a", "CON", NUL: the file paths given to safe_repository_join
RawFragments == { <<Slash>>, <<Dot>>, <<97>>, <<67, 79, 78>>, <<Nul>> }

\* "aa", "/", "\", ".", "CON": the bases and paths of a join whose result is
\* given to is_safe_path
SafeJoinFragments ==
    { <<97, 97>>, <<Slash>>, <<Backslash>>, <<Dot>>, <<67, 79, 78>> }

\* "/", "\", ".", "a": the target paths given to safe_repository_join
TargetFragments == { <<Slash>>, <<Backslash>>, <<Dot>>, <<97>> }

RECURSIVE Concat(_)
Concat(seqs) ==
    IF Len(seqs) = 0 THEN <<>> ELSE Head(seqs) \o Concat(Tail(seqs))

StringsUpTo(frags, n) ==
    UNION { { Concat(parts) : parts \in [1..k -> frags] } : k \in 0..n }

(***************************************************************************)
(* The standard-library string operations the code calls.                  *)
(***************************************************************************)
\* char::is_control: the general category Cc.
is_control(ch) == ch \in 0..31 \/ ch \in 127..159

\* char::is_whitespace: the White_Space property.
is_whitespace(ch) ==
    \/ ch \in 9..13
    \/ ch \in {32, 133, 160, 5760, 8232, 8233, 8239, 8287, 12288}
    \/ ch \in 8192..8202

\* str::to_uppercase, on the characters of the model (ASCII letters; every
\* other character the model draws is its own upper case).
to_uppercase(s) ==
    [i \in 1..Len(s) |-> IF s[i] \in 97..122 THEN s[i] - 32 ELSE s[i]]

\* str::replace(from, to) for single characters.
replace(s, from, to) ==
    [i \in 1..Len(s) |-> IF s[i] = from THEN to ELSE s[i]]

\* str::split(sep): the pieces between separators, empty pieces included;
\* the empty string splits into one empty piece.
RECURSIVE split_from(_, _, _, _, _)
split_from(s, sep, i, cur, acc) ==
    IF i > Len(s) THEN Append(acc, cur)
    ELSE IF s[i] = sep THEN split_from(s, sep, i + 1, <<>>, Append(acc, cur))
    ELSE split_from(s, sep, i + 1, Append(cur, s[i]), acc)

split(s, sep) == split_from(s, sep, 1, <<>>, <<>>)

\* [&str]::join(sep)
RECURSIVE join(_, _)
join(pieces, sep) ==
    IF Len(pieces) = 0 THEN <<>>
    ELSE IF Len(pieces) = 1 THEN Head(pieces)
    ELSE Head(pieces) \o <<sep>> \o join(Tail(pieces), sep)

\* Faulty variant: the pattern is looked for at the start only.
contains_prefix_only(s, sub) ==
    Len(s) >= Len(sub) /\ SubSeq(s, 1, Len(sub)) = sub

\* str::contains(&str)
contains(s, sub) ==
    \E i \in 1..(Len(s) - Len(sub) + 1) : SubSeq(s, i, i + Len(sub) - 1) = sub

\* str::contains(char)
contains_char(s, ch) == \E i \in 1..Len(s) : s[i] = ch

\* str::starts_with(char)
starts_with(s, ch) == Len(s) > 0 /\ s[1] = ch

RECURSIVE trim_start_matches(_, _)
trim_start_matches(s, ch) ==
    IF Len(s) > 0 /\ s[1] = ch THEN trim_start_matches(Tail(s), ch) ELSE s

RECURSIVE trim_end_matches(_, _)
trim_end_matches(s, ch) ==
    IF Len(s) > 0 /\ s[Len(s)] = ch
    THEN trim_end_matches(SubSeq(s, 1, Len(s) - 1), ch)
    ELSE s

\* str::trim: leading and trailing whitespace removed.
RECURSIVE trim(_)
trim(s) ==
    IF Len(s) > 0 /\ is_whitespace(s[1]) THEN trim(Tail(s))
    ELSE IF Len(s) > 0 /\ is_whitespace(s[Len(s)])
    THEN trim(SubSeq(s, 1, Len(s) - 1))
    ELSE s

is_empty(s) == Len(s) = 0

\* Path::to_string_lossy: an ill-formed unit becomes U+FFFD.
to_string_lossy(p) ==
    [i \in 1..Len(p) |->
        IF p[i] \in 0..55295 \/ p[i] \in 57344..1114111
        THEN p[i] ELSE ReplacementChar]

(***************************************************************************)
(* normalize.rs                                                            *)
(***************************************************************************)
\* str::replace(from, to) for a two-character pattern and a one-character
\* replacement: matches are found left to right and do not overlap.
RECURSIVE replace_pair(_, _, _)
replace_pair(s, from, to) ==
    IF Len(s) < 2 THEN s
    ELSE IF SubSeq(s, 1, 2) = from
    THEN <<to>> \o replace_pair(SubSeq(s, 3, Len(s)), from, to)
    ELSE <<s[1]>> \o replace_pair(Tail(s), from, to)

\* Faulty variant: doubled separators are collapsed by one textual replacement
\* instead of by dropping the empty pieces.
normalize_collapse_once(path) ==
    replace_pair(replace(path, Backslash, Slash), <<Slash, Slash>>, Slash)

\* Faulty variant: the filter on empty pieces is missing.
normalize_no_filter(path) ==
    join(split(replace(path, Backslash, Slash), Slash), Slash)

\* Faulty variant: backslashes are not converted.
normalize_forward_only(path) ==
    join(SelectSeq(split(path, Slash), LAMBDA s : ~is_empty(s)), Slash)

normalize_path_str(path) ==
    join(SelectSeq(split(replace(path, Backslash, Slash), Slash),
                   LAMBDA s : ~is_empty(s)),
         Slash)

\* PathBuf::from(String) holds the string's characters unchanged.
normalize_path_buf(path) == normalize_path_str(to_string_lossy(path))

\* Faulty variant: the branch for an empty path returns the path, not the base.
join_wrong_side(base, path) ==
    LET base_str == to_string_lossy(base)
        path_str == to_string_lossy(path)
        base_trimmed == trim_end_matches(base_str, Slash)
        path_trimmed == trim_start_matches(path_str, Slash)
    IN  IF is_empty(base_trimmed) THEN normalize_path_buf(path_trimmed)
        ELSE IF is_empty(path_trimmed) THEN normalize_path_buf(path_trimmed)
        ELSE normalize_path_buf(base_trimmed \o <<Slash>> \o path_trimmed)

\* Faulty variant: the joined string is returned without being normalized.
join_unnormalized(base, path) ==
    LET base_str == to_string_lossy(base)
        path_str == to_string_lossy(path)
        base_trimmed == trim_end_matches(base_str, Slash)
        path_trimmed == trim_start_matches(path_str, Slash)
    IN  IF is_empty(base_trimmed) THEN path_trimmed
        ELSE IF is_empty(path_trimmed) THEN base_trimmed
        ELSE base_trimmed \o <<Slash>> \o path_trimmed

\* Faulty variant: the behaviour of PathBuf::join, where a path with a leading
\* separator replaces the base.
join_absolute_replaces(base, path) ==
    LET base_str == to_string_lossy(base)
        path_str == to_string_lossy(path)
    IN  IF starts_with(path_str, Slash) THEN normalize_path_buf(path_str)
        ELSE normalize_path_buf(base_str \o <<Slash>> \o path_str)

join_and_normalize(base, path) ==
    LET base_str == to_string_lossy(base)
        path_str == to_string_lossy(path)
        base_trimmed == trim_end_matches(base_str, Slash)
        path_trimmed == trim_start_matches(path_str, Slash)
    IN  IF is_empty(base_trimmed) THEN normalize_path_buf(path_trimmed)
        ELSE IF is_empty(path_trimmed) THEN normalize_path_buf(base_trimmed)
        ELSE normalize_path_buf(base_trimmed \o <<Slash>> \o path_trimmed)

(***************************************************************************)
(* error.rs: the PathError values the modelled operations build.           *)
(***************************************************************************)
ValidationFailed(message) == [kind |-> "ValidationFailed", message |-> message]

\* Faulty variant: a traversal is reported as a general validation failure.
traversal_as_validation_failed(path) == ValidationFailed(path)

EmptyPath == [kind |-> "EmptyPath"]
PathTraversal(path) == [kind |-> "PathTraversal", path |-> path]
InvalidCharacters(path) == [kind |-> "InvalidCharacters", path |-> path]
ReservedFilename(filename, path) ==
    [kind |-> "ReservedFilename", filename |-> filename, path |-> path]
DriveLetterPath(path) == [kind |-> "DriveLetterPath", path |-> path]

Ok(value) == [ok |-> TRUE, value |-> value]
Err(error) == [ok |-> FALSE, err |-> error]

\* The unit value of Result<()>.
Unit == <<>>

(***************************************************************************)
(* The checks validate.rs and normalize.rs both spell out.                 *)
(***************************************************************************)
\* Faulty variant: only NUL is looked for.
has_null_only(s) == contains_char(s, Nul)

\* s.contains('\0') || s.chars().any(|c| c.is_control() && c != '\n' && c != '\t')
has_null_or_control(s) ==
    \/ contains_char(s, Nul)
    \/ \E i \in 1..Len(s) :
        is_control(s[i]) /\ s[i] # Newline /\ s[i] # Tab

\* Faulty variant: '<' is missing from the list.
has_invalid_char_missing_lt(s) ==
    \E k \in 2..Len(invalid_chars) : contains_char(s, invalid_chars[k])

\* for invalid_char in ['<', '>', '|', '?', '*', '"'] { if s.contains(invalid_char) ..
has_invalid_char(s) ==
    \E k \in 1..Len(invalid_chars) : contains_char(s, invalid_chars[k])

\* component.to_uppercase().split('.').next().unwrap_or("")
base_name(component) == Head(split(to_uppercase(component), Dot))

\* Faulty variant: a base name that starts with a reserved name counts.
first_reserved_prefix(components) ==
    LET hit(k) ==
            \E r \in reserved_names :
                /\ Len(base_name(components[k])) >= Len(r)
                /\ SubSeq(base_name(components[k]), 1, Len(r)) = r
    IN  IF \E k \in 1..Len(components) : hit(k)
        THEN CHOOSE k \in 1..Len(components) :
                hit(k) /\ \A m \in 1..(k - 1) : ~hit(m)
        ELSE 0

\* The first component of the loop whose base name is reserved, 0 if none.
first_reserved(components) ==
    IF \E k \in 1..Len(components) : base_name(components[k]) \in reserved_names
    THEN CHOOSE k \in 1..Len(components) :
            /\ base_name(components[k]) \in reserved_names
            /\ \A m \in 1..(k - 1) : base_name(components[m]) \notin reserved_names
    ELSE 0

(***************************************************************************)
(* validate.rs                                                             *)
(***************************************************************************)
\* Faulty variant: the components are taken from the split on '/' alone.
is_safe_components_slash_only(path_str) == split(path_str, Slash)

\* path_str.split('/').chain(path_str.split('\\'))
is_safe_components(path_str) ==
    split(path_str, Slash) \o split(path_str, Backslash)

is_safe_path(path) ==
    LET path_str == to_string_lossy(path)
    IN  IF is_empty(trim(path_str)) THEN FALSE
        ELSE IF contains(path_str, <<Dot, Dot>>) THEN FALSE
        ELSE IF has_null_or_control(path_str) THEN FALSE
        ELSE IF has_invalid_char(path_str) THEN FALSE
        ELSE IF first_reserved(is_safe_components(path_str)) # 0 THEN FALSE
        ELSE TRUE

\* path_str.split('/').chain(path_str.split('\\'))
validate_components(path_str) ==
    split(path_str, Slash) \o split(path_str, Backslash)

validate_path(path) ==
    LET path_str == to_string_lossy(path)
        path_string == path_str
        components == validate_components(path_str)
        k == first_reserved(components)
    IN  IF is_empty(trim(path_str)) THEN Err(EmptyPath)
        ELSE IF contains(path_str, <<Dot, Dot>>)
        THEN Err(PathTraversal(path_string))
        ELSE IF has_null_or_control(path_str)
        THEN Err(InvalidCharacters(path_string))
        ELSE IF has_invalid_char(path_str)
        THEN Err(InvalidCharacters(path_string))
        ELSE IF k # 0 THEN Err(ReservedFilename(components[k], path_string))
        ELSE Ok(Unit)

(***************************************************************************)
(* normalize.rs: the sanitizer.  cfg!(windows) is the variable windows.    *)
(***************************************************************************)
\* Faulty variant: the reserved names are checked before the characters.
sanitize_reserved_first(path) ==
    LET normalized0 == normalize_path_str(path)
        normalized ==
            IF starts_with(normalized0, Slash)
            THEN trim_start_matches(normalized0, Slash)
            ELSE normalized0
        components == split(normalized, Slash)
        k == first_reserved(components)
    IN  IF is_empty(trim(path)) THEN Err(EmptyPath)
        ELSE IF contains(normalized0, <<Dot, Dot>>) THEN Err(PathTraversal(path))
        ELSE IF windows /\ Len(normalized) > 1 /\ normalized[2] = Colon
        THEN Err(DriveLetterPath(path))
        ELSE IF k # 0 THEN Err(ReservedFilename(components[k], path))
        ELSE IF has_null_or_control(normalized) THEN Err(InvalidCharacters(path))
        ELSE IF has_invalid_char(normalized) THEN Err(InvalidCharacters(path))
        ELSE Ok(normalized)

\* Faulty variant: the drive-letter check comes after the character checks.
sanitize_drive_letter_late(path) ==
    LET normalized0 == normalize_path_str(path)
        normalized ==
            IF starts_with(normalized0, Slash)
            THEN trim_start_matches(normalized0, Slash)
            ELSE normalized0
        components == split(normalized, Slash)
        k == first_reserved(components)
    IN  IF is_empty(trim(path)) THEN Err(EmptyPath)
        ELSE IF contains(normalized0, <<Dot, Dot>>) THEN Err(PathTraversal(path))
        ELSE IF has_null_or_control(normalized) THEN Err(InvalidCharacters(path))
        ELSE IF has_invalid_char(normalized) THEN Err(InvalidCharacters(path))
        ELSE IF windows /\ Len(normalized) > 1 /\ normalized[2] = Colon
        THEN Err(DriveLetterPath(path))
        ELSE IF k # 0 THEN Err(ReservedFilename(components[k], path))
        ELSE Ok(normalized)

sanitize_directory_file_path(path) ==
    LET normalized0 == normalize_path_str(path)
        normalized ==
            IF starts_with(normalized0, Slash)
            THEN trim_start_matches(normalized0, Slash)
            ELSE normalized0
        components == split(normalized, Slash)
        k == first_reserved(components)
    IN  IF is_empty(trim(path)) THEN Err(EmptyPath)
        ELSE IF contains(normalized0, <<Dot, Dot>>) THEN Err(PathTraversal(path))
        ELSE IF windows /\ Len(normalized) > 1 /\ normalized[2] = Colon
        THEN Err(DriveLetterPath(path))
        ELSE IF has_null_or_control(normalized) THEN Err(InvalidCharacters(path))
        ELSE IF has_invalid_char(normalized) THEN Err(InvalidCharacters(path))
        ELSE IF k # 0 THEN Err(ReservedFilename(components[k], path))
        ELSE Ok(normalized)

(***************************************************************************)
(* std::path on a platform whose only separator is '/' (cfg(unix)): the    *)
(* operations safe_repository_join calls.                                  *)
(***************************************************************************)
RootDir == [kind |-> "RootDir", name |-> <<>>]
CurDir == [kind |-> "CurDir", name |-> <<>>]
ParentDir == [kind |-> "ParentDir", name |-> <<>>]
Normal(name) == [kind |-> "Normal", name |-> name]

\* Path::has_root
has_root(p) == starts_with(p, Slash)

\* Path::join (PathBuf::push): an absolute path replaces the base; a
\* separator is added unless the base is empty or ends with one.
path_join(base, p) ==
    IF has_root(p) THEN p
    ELSE IF Len(base) > 0 /\ base[Len(base)] # Slash
    THEN base \o <<Slash>> \o p
    ELSE base \o p

\* The components of the pieces from the k-th on: an empty piece and "."
\* give no component, ".." gives ParentDir.
RECURSIVE body_components(_, _)
body_components(pieces, k) ==
    IF k > Len(pieces) THEN <<>>
    ELSE IF pieces[k] = <<>> \/ pieces[k] = <<Dot>>
    THEN body_components(pieces, k + 1)
    ELSE IF pieces[k] = <<Dot, Dot>>
    THEN <<ParentDir>> \o body_components(pieces, k + 1)
    ELSE <<Normal(pieces[k])>> \o body_components(pieces, k + 1)

\* Path::components: RootDir for a leading '/', CurDir for a leading "."
\* of a path without root, then the body.
components(p) ==
    LET pieces == split(p, Slash)
        front == IF has_root(p) THEN <<RootDir>>
                 ELSE IF pieces[1] = <<Dot>> THEN <<CurDir>>
                 ELSE <<>>
    IN  front \o body_components(pieces, 1)

\* Path::strip_prefix: the components left after those of base, or an error
\* when base's components do not start the path's.
strip_prefix(p, base) ==
    LET pcs == components(p)
        bcs == components(base)
    IN  IF Len(bcs) <= Len(pcs) /\ SubSeq(pcs, 1, Len(bcs)) = bcs
        THEN Ok(SubSeq(pcs, Len(bcs) + 1, Len(pcs)))
        ELSE Err("StripPrefixError")

\* Path::canonicalize: what the filesystem answers for the path.
canonicalize(p) == fs[p]

(***************************************************************************)
(* normalize.rs: safe_repository_join.                                     *)
(***************************************************************************)
IoError(message) == [kind |-> "IoError", message |-> message]
ConstructionFailed(message) == [kind |-> "ConstructionFailed", message |-> message]

\* ".. components not allowed"
ParentDirMessage ==
    <<46, 46, 32, 99, 111, 109, 112, 111, 110, 101, 110, 116, 115, 32, 110,
      111, 116, 32, 97, 108, 108, 111, 119, 101, 100>>

\* Faulty variant: a failed canonicalization is reported as a failed
\* construction.
map_canonicalize_error_as_construction(e) ==
    Err(ConstructionFailed([text |-> "Cannot canonicalize workdir", error |-> e]))

\* .map_err(|e| PathError::IoError { message: format!("Cannot canonicalize workdir: {}", e) })
map_canonicalize_error(e) ==
    Err(IoError([text |-> "Cannot canonicalize workdir", error |-> e]))

\* Faulty variant: the target is left out of the constructed path.
construct_without_target(workdir_canonical, target, sanitized_file_path) ==
    path_join(workdir_canonical, sanitized_file_path)

\* workdir_canonical.join(normalize_path_buf(target_path)).join(PathBuf::from(sanitized_file_path))
construct_final_path(workdir_canonical, target, sanitized_file_path) ==
    LET target_normalized == normalize_path_buf(target)
        file_normalized == sanitized_file_path
    IN  path_join(path_join(workdir_canonical, target_normalized), file_normalized)

\* Faulty variant: the loop never finds a parent-directory component.
has_parent_dir_never(comps) == FALSE

\* Faulty variant: only the last component is looked at.
has_parent_dir_last_only(comps) ==
    Len(comps) > 0 /\ comps[Len(comps)] = ParentDir

\* for component in relative_to_workdir.components() { if let ParentDir = component ..
has_parent_dir(comps) == \E k \in 1..Len(comps) : comps[k] = ParentDir

\* The validation of the constructed path and the value returned.
check_final_path(final_path, workdir_canonical) ==
    LET relative_to_workdir == strip_prefix(final_path, workdir_canonical)
    IN  IF ~relative_to_workdir.ok
        THEN Err(ConstructionFailed(
                [text |-> "Path construction failed - result not within workdir",
                 final |-> final_path, workdir |-> workdir_canonical]))
        ELSE IF has_parent_dir(relative_to_workdir.value)
        THEN Err(PathTraversal(ParentDirMessage))
        ELSE Ok(final_path)

(***************************************************************************)
(* The state machine: a caller holding the inputs a, b, c applies the      *)
(* operations; out is the value last returned, prev the one kept from an   *)
(* earlier call.                                                           *)
(***************************************************************************)
None == <<>>

\* One string for the single-string operations, on either platform.
InitPath ==
    /\ windows \in BOOLEAN
    /\ a \in StringsUpTo(PathFragments, MaxFrags)
    /\ b = <<>>
    /\ c = <<>>

\* Three strings for the joins, which do not read the platform.
InitJoin ==
    /\ windows = FALSE
    /\ \E t \in StringsUpTo(JoinFragments, MaxJoinLen) :
        \E i \in 0..Len(t) :
            \E j \in i..Len(t) :
                /\ a = SubSeq(t, 1, i)
                /\ b = SubSeq(t, i + 1, j)
                /\ c = SubSeq(t, j + 1, Len(t))

\* No call of safe_repository_join is under way.
RepoIdle ==
    /\ workdir = <<>>
    /\ target_path = <<>>
    /\ file_path = <<>>
    /\ fs = <<>>
    /\ canon_calls = 0
    /\ frame = <<>>

Init ==
    /\ pc = "start"
    /\ out = None
    /\ prev = None
    /\ (InitPath \/ InitJoin)
    /\ RepoIdle

Normalize ==
    /\ pc = "start"
    /\ out' = normalize_path_str(a)
    /\ pc' = "normalized"
    /\ UNCHANGED <<windows, a, b, c, prev, repo_vars>>

NormalizeAgain ==
    /\ pc = "normalized"
    /\ prev' = out
    /\ out' = normalize_path_str(out)
    /\ pc' = "renormalized"
    /\ UNCHANGED <<windows, a, b, c, repo_vars>>

\* One call of join_and_normalize(x, y); keep says whether the value of the
\* previous call is kept in prev.
JoinStep(from, to, x, y, keep) ==
    /\ pc = from
    /\ out' = join_and_normalize(x, y)
    /\ prev' = IF keep THEN out ELSE prev
    /\ pc' = to
    /\ UNCHANGED <<windows, a, b, c, repo_vars>>

\* join_and_normalize(b, c), then join_and_normalize(a, that)
JoinBC == JoinStep("start", "joined_bc", b, c, FALSE)
JoinA_BC == JoinStep("joined_bc", "joined_a_bc", a, out, FALSE)
\* join_and_normalize(a, b), then join_and_normalize(that, c)
JoinAB == JoinStep("joined_a_bc", "joined_ab", a, b, TRUE)
JoinAB_C == JoinStep("joined_ab", "joined_ab_c", out, c, FALSE)

IsSafe ==
    /\ pc = "start"
    /\ out' = is_safe_path(a)
    /\ pc' = "is_safe"
    /\ UNCHANGED <<windows, a, b, c, prev, repo_vars>>

Validate ==
    /\ pc = "start"
    /\ out' = validate_path(a)
    /\ pc' = "validated"
    /\ UNCHANGED <<windows, a, b, c, prev, repo_vars>>

Sanitize ==
    /\ pc = "start"
    /\ out' = sanitize_directory_file_path(a)
    /\ pc' = "sanitized"
    /\ UNCHANGED <<windows, a, b, c, prev, repo_vars>>

Next ==
    \/ Normalize
    \/ NormalizeAgain
    \/ JoinBC
    \/ JoinA_BC
    \/ JoinAB
    \/ JoinAB_C
    \/ IsSafe
    \/ Validate
    \/ Sanitize

Spec == Init /\ [][Next]_vars

(***************************************************************************)
(* safe_repository_join(workdir, target_path, file_path), one step per     *)
(* fallible stage: the sanitizer, the canonicalization of the workdir, the *)
(* construction and its validation.                                        *)
(***************************************************************************)
\* "/r", "/l", "/"
Workdirs == { <<47, 114>>, <<47, 108>>, <<47>> }

\* "/r" is a directory, "/l" a symbolic link to "/r/d".
FsPresent ==
    [w \in Workdirs |->
        IF w = <<47, 108>> THEN Ok(<<47, 114, 47, 100>>) ELSE Ok(w)]

\* "/r" does not exist, "/l" may not be read.
FsBroken ==
    [w \in Workdirs |->
        IF w = <<47, 114>> THEN Err("NotFound")
        ELSE IF w = <<47, 108>> THEN Err("PermissionDenied")
        ELSE Ok(w)]

Filesystems == { FsPresent, FsBroken }

EmptyFrame ==
    [sanitized_file_path |-> <<>>, workdir_canonical |-> <<>>,
     final_path |-> <<>>]

InitRepoUpTo(raw_frags, target_len) ==
    /\ windows = FALSE
    /\ a = <<>>
    /\ b = <<>>
    /\ c = <<>>
    /\ pc = "repo_start"
    /\ out = None
    /\ prev = None
    /\ workdir \in Workdirs
    /\ fs \in Filesystems
    /\ target_path \in StringsUpTo(TargetFragments, target_len)
    /\ file_path \in StringsUpTo(RawFragments, raw_frags)
    /\ canon_calls = 0
    /\ frame = EmptyFrame

InitRepo == InitRepoUpTo(MaxRawFrags, MaxTargetLen)

\* Faulty variant: the workdir is canonicalized before the file path is
\* sanitized, so a workdir that cannot be canonicalized hides the sanitizer's
\* error.
RepoSanitize_canonicalize_first ==
    /\ pc = "repo_start"
    /\ canon_calls' = canon_calls + 1
    /\ LET w == canonicalize(workdir)
           r == sanitize_directory_file_path(file_path)
       IN  IF ~w.ok
           THEN /\ out' = map_canonicalize_error(w.err)
                /\ pc' = "repo_returned"
                /\ frame' = frame
           ELSE IF r.ok
           THEN /\ frame' = [frame EXCEPT !.sanitized_file_path = r.value,
                                          !.workdir_canonical = w.value]
                /\ pc' = "repo_canonicalized"
                /\ out' = out
           ELSE /\ out' = r
                /\ pc' = "repo_returned"
                /\ frame' = frame
    /\ UNCHANGED <<windows, a, b, c, prev, workdir, target_path, file_path, fs>>

\* let sanitized_file_path = sanitize_directory_file_path(file_path)?;
RepoSanitize ==
    /\ pc = "repo_start"
    /\ LET r == sanitize_directory_file_path(file_path)
       IN  IF r.ok
           THEN /\ frame' = [frame EXCEPT !.sanitized_file_path = r.value]
                /\ pc' = "repo_sanitized"
                /\ out' = out
           ELSE /\ out' = r
                /\ pc' = "repo_returned"
                /\ frame' = frame
    /\ UNCHANGED <<windows, a, b, c, prev, workdir, target_path, file_path,
                   fs, canon_calls>>

\* let workdir_canonical = workdir.as_ref().canonicalize().map_err(..)?;
RepoCanonicalize ==
    /\ pc = "repo_sanitized"
    /\ canon_calls' = canon_calls + 1
    /\ LET r == canonicalize(workdir)
       IN  IF r.ok
           THEN /\ frame' = [frame EXCEPT !.workdir_canonical = r.value]
                /\ pc' = "repo_canonicalized"
                /\ out' = out
           ELSE /\ out' = map_canonicalize_error(r.err)
                /\ pc' = "repo_returned"
                /\ frame' = frame
    /\ UNCHANGED <<windows, a, b, c, prev, workdir, target_path, file_path, fs>>

\* The join, strip_prefix, the component loop and the return.
RepoConstruct ==
    /\ pc = "repo_canonicalized"
    /\ LET final_path ==
               construct_final_path(frame.workdir_canonical, target_path,
                                    frame.sanitized_file_path)
       IN  /\ frame' = [frame EXCEPT !.final_path = final_path]
           /\ out' = check_final_path(final_path, frame.workdir_canonical)
    /\ pc' = "repo_returned"
    /\ UNCHANGED <<windows, a, b, c, prev, workdir, target_path, file_path,
                   fs, canon_calls>>

NextRepo ==
    \/ RepoSanitize
    \/ RepoCanonicalize
    \/ RepoConstruct

SpecRepo == InitRepo /\ [][NextRepo]_vars

(***************************************************************************)
(* Concurrent calls of safe_repository_join.  The function has no statics  *)
(* and takes no lock: a call's state is its arguments and locals, so each  *)
(* variable of the single call becomes a function of the thread; the       *)
(* filesystem is the one thing the calls share, and it changes under them. *)
(* prev[t] records the filesystem that answered t's canonicalization.      *)
(***************************************************************************)
Threads == 1..MaxThreads

\* "/l" now points to "/r/e".
FsMoved ==
    [w \in Workdirs |->
        IF w = <<47, 108>> THEN Ok(<<47, 114, 47, 101>>) ELSE Ok(w)]

ConcFilesystems == { FsPresent, FsBroken, FsMoved }

\* The arguments of the concurrent calls: workdir "/r" or "/l", target "a" or
\* "..", file path "/a" or NUL.
ConcCalls ==
    [workdir : { <<47, 114>>, <<47, 108>> },
     target_path : { <<97>>, <<Dot, Dot>> },
     file_path : { <<Slash, 97>>, <<Nul>> }]

\* safe_repository_join as one call running alone on the filesystem given.
safe_repository_join(filesystem, wd, target, file) ==
    LET sanitized == sanitize_directory_file_path(file)
        canonical == filesystem[wd]
    IN  IF ~sanitized.ok THEN sanitized
        ELSE IF ~canonical.ok THEN map_canonicalize_error(canonical.err)
        ELSE check_final_path(
                 construct_final_path(canonical.value, target, sanitized.value),
                 canonical.value)

InitConc ==
    /\ windows = FALSE
    /\ a = <<>>
    /\ b = <<>>
    /\ c = <<>>
    /\ \E calls \in [Threads -> ConcCalls] :
        /\ workdir = [t \in Threads |-> calls[t].workdir]
        /\ target_path = [t \in Threads |-> calls[t].target_path]
        /\ file_path = [t \in Threads |-> calls[t].file_path]
    /\ fs \in ConcFilesystems
    /\ pc = [t \in Threads |-> "repo_start"]
    /\ out = [t \in Threads |-> None]
    /\ prev = [t \in Threads |-> None]
    /\ canon_calls = [t \in Threads |-> 0]
    /\ frame = [t \in Threads |-> EmptyFrame]

\* Faulty variant: a canonical path found by another call for the same
\* workdir is reused instead of asking the filesystem.
ThreadCanonicalize_cached(t) ==
    /\ pc[t] = "repo_sanitized"
    /\ canon_calls' = [canon_calls EXCEPT ![t] = @ + 1]
    /\ prev' = [prev EXCEPT ![t] = fs]
    /\ LET cached == {u \in Threads \ {t} :
                         /\ workdir[u] = workdir[t]
                         /\ frame[u].workdir_canonical # <<>>}
           r == IF cached # {}
                THEN Ok(frame[CHOOSE u \in cached : TRUE].workdir_canonical)
                ELSE canonicalize(workdir[t])
       IN  IF r.ok
           THEN /\ frame' = [frame EXCEPT ![t].workdir_canonical = r.value]
                /\ pc' = [pc EXCEPT ![t] = "repo_canonicalized"]
                /\ out' = out
           ELSE /\ out' = [out EXCEPT ![t] = map_canonicalize_error(r.err)]
                /\ pc' = [pc EXCEPT ![t] = "repo_returned"]
                /\ frame' = frame
    /\ UNCHANGED <<windows, a, b, c, workdir, target_path, file_path, fs>>

\* let sanitized_file_path = sanitize_directory_file_path(file_path)?;
ThreadSanitize(t) ==
    /\ pc[t] = "repo_start"
    /\ LET r == sanitize_directory_file_path(file_path[t])
       IN  IF r.ok
           THEN /\ frame' = [frame EXCEPT ![t].sanitized_file_path = r.value]
                /\ pc' = [pc EXCEPT ![t] = "repo_sanitized"]
                /\ out' = out
           ELSE /\ out' = [out EXCEPT ![t] = r]
                /\ pc' = [pc EXCEPT ![t] = "repo_returned"]
                /\ frame' = frame
    /\ UNCHANGED <<windows, a, b, c, prev, workdir, target_path, file_path,
                   fs, canon_calls>>

\* let workdir_canonical = workdir.as_ref().canonicalize().map_err(..)?;
ThreadCanonicalize(t) ==
    /\ pc[t] = "repo_sanitized"
    /\ canon_calls' = [canon_calls EXCEPT ![t] = @ + 1]
    /\ prev' = [prev EXCEPT ![t] = fs]
    /\ LET r == canonicalize(workdir[t])
       IN  IF r.ok
           THEN /\ frame' = [frame EXCEPT ![t].workdir_canonical = r.value]
                /\ pc' = [pc EXCEPT ![t] = "repo_canonicalized"]
                /\ out' = out
           ELSE /\ out' = [out EXCEPT ![t] = map_canonicalize_error(r.err)]
                /\ pc' = [pc EXCEPT ![t] = "repo_returned"]
                /\ frame' = frame
    /\ UNCHANGED <<windows, a, b, c, workdir, target_path, file_path, fs>>

\* The join, strip_prefix, the component loop and the return.
ThreadConstruct(t) ==
    /\ pc[t] = "repo_canonicalized"
    /\ LET final_path ==
               construct_final_path(frame[t].workdir_canonical, target_path[t],
                                    frame[t].sanitized_file_path)
       IN  /\ frame' = [frame EXCEPT ![t].final_path = final_path]
           /\ out' = [out EXCEPT ![t] =
                        check_final_path(final_path, frame[t].workdir_canonical)]
    /\ pc' = [pc EXCEPT ![t] = "repo_returned"]
    /\ UNCHANGED <<windows, a, b, c, prev, workdir, target_path, file_path,
                   fs, canon_calls>>

\* Another process changes the filesystem.
FsChange ==
    /\ fs' \in ConcFilesystems \ {fs}
    /\ UNCHANGED <<windows, a, b, c, pc, out, prev, workdir, target_path,
                   file_path, canon_calls, frame>>

NextConc ==
    \/ \E t \in Threads : ThreadSanitize(t)
    \/ \E t \in Threads : ThreadCanonicalize(t)
    \/ \E t \in Threads : ThreadConstruct(t)
    \/ FsChange

SpecConc == InitConc /\ [][NextConc]_vars

(***************************************************************************)
(* join_operations_are_safe: join_and_normalize(base, path), then          *)
(* is_safe_path on the joined string.  base is a, path is b, both cut from *)
(* one string of fragments.                                                *)
(***************************************************************************)
InitSafeJoin ==
    /\ windows = FALSE
    /\ \E t \in StringsUpTo(SafeJoinFragments, MaxSafeJoinFrags) :
        \E i \in 0..Len(t) :
            /\ a = SubSeq(t, 1, i)
            /\ b = SubSeq(t, i + 1, Len(t))
    /\ c = <<>>
    /\ pc = "safe_start"
    /\ out = None
    /\ prev = None
    /\ RepoIdle

\* let joined = join_and_normalize(&base, &path);
JoinSafe == JoinStep("safe_start", "safe_joined", a, b, FALSE)

\* is_safe_path(&joined_str): prev keeps the joined string.
CheckJoined ==
    /\ pc = "safe_joined"
    /\ prev' = to_string_lossy(out)
    /\ out' = is_safe_path(to_string_lossy(out))
    /\ pc' = "safe_checked"
    /\ UNCHANGED <<windows, a, b, c, repo_vars>>

NextSafeJoin ==
    \/ JoinSafe
    \/ CheckJoined

SpecSafeJoin == InitSafeJoin /\ [][NextSafeJoin]_vars

(***************************************************************************)
(* Every public operation of the crate, each called on its own inputs.     *)
(***************************************************************************)
InitAll == Init \/ InitRepoUpTo(MaxAllRawFrags, MaxAllTargetLen)

NextAll == Next \/ NextRepo

SpecAll == InitAll /\ [][NextAll]_vars

(***************************************************************************)
(* What the specification says, stated without the code's operators: a     *)
(* path's segments are its maximal runs of characters that are neither     *)
(* '/' nor '\'.                                                            *)
(***************************************************************************)
IsSeparator(ch) == ch = Slash \/ ch = Backslash

SegmentEnd(s, i) ==
    CHOOSE j \in i..Len(s) :
        /\ \A k \in i..j : ~IsSeparator(s[k])
        /\ (j = Len(s) \/ IsSeparator(s[j + 1]))

RECURSIVE SegmentsFrom(_, _)
SegmentsFrom(s, i) ==
    IF i > Len(s) THEN <<>>
    ELSE IF IsSeparator(s[i]) THEN SegmentsFrom(s, i + 1)
    ELSE <<SubSeq(s, i, SegmentEnd(s, i))>>
            \o SegmentsFrom(s, SegmentEnd(s, i) + 1)

Segments(s) == SegmentsFrom(s, 1)

RECURSIVE SlashJoined(_)
SlashJoined(segs) ==
    IF segs = <<>> THEN <<>>
    ELSE IF Len(segs) = 1 THEN segs[1]
    ELSE segs[1] \o <<Slash>> \o SlashJoined(Tail(segs))

HasSegment(s, seg) == \E k \in 1..Len(Segments(s)) : Segments(s)[k] = seg

NoDoubleSlash(s) == \A i \in 1..(Len(s) - 1) : ~(s[i] = Slash /\ s[i + 1] = Slash)

\* C1: normalize_path_str is idempotent: normalizing a normalized string
\* returns it unchanged.
C1_NormalizeIdempotent == pc = "renormalized" => out = prev

C1_Witness ==
    /\ pc = "renormalized"
    /\ prev # a
    /\ prev # <<>>
    /\ out = prev

\* C2: the output of normalize_path_str has no backslash, no "//" and no
\* empty segment: it neither starts nor ends with '/'.
C2_NormalizedShape ==
    pc \in {"normalized", "renormalized"} =>
        /\ \A i \in 1..Len(out) : out[i] # Backslash
        /\ NoDoubleSlash(out)
        /\ out # <<>> => (out[1] # Slash /\ out[Len(out)] # Slash)

C2_Witness ==
    /\ pc = "normalized"
    /\ \E i \in 1..Len(a) : a[i] = Backslash
    /\ ~NoDoubleSlash(a)
    /\ out # <<>>

\* C3: normalize_path_str(s) is the non-empty segments of s, split on every
\* '/' and every '\', in their order, joined by single '/'; "." and ".."
\* stay as segments; a string without segments gives the empty string.
C3_NormalizeIsSegmentsJoined ==
    pc = "normalized" =>
        /\ out = SlashJoined(Segments(a))
        /\ Segments(out) = Segments(a)
        /\ Segments(a) = <<>> => out = <<>>

C3_Witness ==
    /\ pc = "normalized"
    /\ HasSegment(a, <<Dot, Dot>>)
    /\ HasSegment(out, <<Dot, Dot>>)
    /\ \E i \in 1..Len(a) : a[i] = Backslash
    /\ Len(Segments(a)) > 1

\* A safe relative path: non-empty, no leading '/', no "..".
SafeRelative(s) ==
    /\ s # <<>>
    /\ s[1] # Slash
    /\ \A i \in 1..(Len(s) - 1) : ~(s[i] = Dot /\ s[i + 1] = Dot)

\* C4: for safe relative paths a, b, c,
\* join_and_normalize(a, join_and_normalize(b, c)) =
\* join_and_normalize(join_and_normalize(a, b), c).
C4_JoinAssociative ==
    (pc = "joined_ab_c" /\ SafeRelative(a) /\ SafeRelative(b) /\ SafeRelative(c))
        => out = prev

C4_Witness ==
    /\ pc = "joined_ab_c"
    /\ SafeRelative(a) /\ SafeRelative(b) /\ SafeRelative(c)
    /\ Len(a) > 1
    /\ a[Len(a)] = Slash
    /\ Len(Segments(out)) = 3
    /\ out = prev

AllSlashes(s) == \A i \in 1..Len(s) : s[i] = Slash

\* What C5 says of one call join_and_normalize(base, path) returning result.
JoinAsSpecified(base, path, result) ==
    /\ AllSlashes(base) => result = normalize_path_str(path)
    /\ AllSlashes(path) => result = normalize_path_str(base)
    /\ (~AllSlashes(base) /\ ~AllSlashes(path))
        => result = normalize_path_str(base \o <<Slash>> \o path)
    /\ Segments(result) = Segments(base) \o Segments(path)
    /\ NoDoubleSlash(result)

\* C5: join_and_normalize(base, path) is the normalization of "base/path"
\* after trimming, the normalization of the other side when one side is
\* empty after trimming; its segments are those of base, then those of
\* path, and it holds no "//".
C5_JoinResult ==
    /\ pc = "joined_bc" => JoinAsSpecified(b, c, out)
    /\ pc = "joined_ab" => JoinAsSpecified(a, b, out)

C5_Witness ==
    /\ pc = "joined_bc"
    /\ Len(b) > 1 /\ b[Len(b)] = Slash /\ ~AllSlashes(b)
    /\ Len(c) > 1 /\ c[1] = Slash /\ ~AllSlashes(c)
    /\ Len(Segments(out)) = 2

\* C6: is_safe_path(s) is true exactly when validate_path(s) is Ok.
C6_SafeIffValid ==
    /\ pc = "is_safe" => (out <=> validate_path(a).ok)
    /\ pc = "validated" => (out.ok <=> is_safe_path(a))

C6_Witness ==
    /\ pc = "validated"
    /\ ~out.ok
    /\ out.err.kind = "ReservedFilename"
    /\ \E i \in 1..Len(a) : a[i] = Backslash
    /\ ~is_safe_path(a)

(***************************************************************************)
(* The validator's rules as the specification words them.                  *)
(***************************************************************************)
RuleEmpty(s) == \A i \in 1..Len(s) : is_whitespace(s[i])

RuleTraversal(s) == \E i \in 1..(Len(s) - 1) : s[i] = Dot /\ s[i + 1] = Dot

HasNulOrControl(s) ==
    \E i \in 1..Len(s) :
        s[i] = Nul \/ (is_control(s[i]) /\ s[i] \notin {Newline, Tab})

RuleInvalidCharacters(s) ==
    \/ HasNulOrControl(s)
    \/ \E i \in 1..Len(s) : s[i] \in {60, 62, 124, 63, 42, 34}

\* The portion of a segment before its first '.', in upper case.
BeforeFirstDot(seg) ==
    LET dots == {i \in 1..Len(seg) : seg[i] = Dot}
        stop == IF dots = {} THEN Len(seg) + 1
                ELSE CHOOSE i \in dots : \A m \in dots : i <= m
    IN  to_uppercase(SubSeq(seg, 1, stop - 1))

IsReservedSegment(seg) == BeforeFirstDot(seg) \in reserved_names

RuleReserved(s) ==
    \E k \in 1..Len(Segments(s)) : IsReservedSegment(Segments(s)[k])

ExpectedViolation(s) ==
    IF RuleEmpty(s) THEN "EmptyPath"
    ELSE IF RuleTraversal(s) THEN "PathTraversal"
    ELSE IF RuleInvalidCharacters(s) THEN "InvalidCharacters"
    ELSE IF RuleReserved(s) THEN "ReservedFilename"
    ELSE "Ok"

ResultKind(r) == IF r.ok THEN "Ok" ELSE r.err.kind

\* C7: validate_path reports the first rule that fires, in the order
\* EmptyPath, PathTraversal, InvalidCharacters, ReservedFilename, else Ok.
C7_FirstRuleWins == pc = "validated" => ResultKind(out) = ExpectedViolation(a)

PassesRules1To4(s) ==
    ~RuleEmpty(s) /\ ~RuleTraversal(s) /\ ~RuleInvalidCharacters(s)

\* C8: an input that passes rules 1-4 and has a segment (split on '/' and
\* on '\') whose portion before the first '.' is a reserved device name is
\* ReservedFilename for validate_path and unsafe for is_safe_path.
C8_ReservedSegmentRejected ==
    (PassesRules1To4(a) /\ RuleReserved(a)) =>
        /\ pc = "validated" => ResultKind(out) = "ReservedFilename"
        /\ pc = "is_safe" => out = FALSE

\* A path whose segments, after its leading separators, are one reserved name.
OnlyReservedAfterLeadingSeparators(s) ==
    /\ Len(s) > 0
    /\ IsSeparator(s[1])
    /\ Len(Segments(s)) = 1
    /\ Segments(s)[1] \in reserved_names

\* C9: a reserved device name, in any case, alone or with an extension, as
\* the whole path or as any component, is rejected by is_safe_path and by
\* sanitize_directory_file_path; for a name behind leading separators
\* ("/CON") sanitize returns ReservedFilename.
C9_ReservedNamesRejected ==
    /\ RuleReserved(a) =>
        /\ pc = "is_safe" => out = FALSE
        /\ pc = "sanitized" => ~out.ok
    /\ (pc = "sanitized" /\ OnlyReservedAfterLeadingSeparators(a))
        => ResultKind(out) = "ReservedFilename"

\* The sanitizer's drive-letter rule: on a drive-letter platform, ':' is
\* the second character of the normalized path.
RuleDriveLetter(s) ==
    LET normal == SlashJoined(Segments(s))
    IN  windows /\ Len(normal) > 1 /\ normal[2] = Colon

\* C10 as claimed: a string with a NUL or a control character other than
\* newline and tab is rejected by is_safe_path, validate_path and
\* sanitize_directory_file_path; when neither the empty rule nor the ".."
\* rule fires the violation is InvalidCharacters.
C10_ControlRejected_AsClaimed ==
    HasNulOrControl(a) =>
        /\ pc = "is_safe" => out = FALSE
        /\ pc \in {"validated", "sanitized"} =>
            /\ ~out.ok
            /\ (~RuleEmpty(a) /\ ~RuleTraversal(a))
                => out.err.kind = "InvalidCharacters"

\* C10, amended: as above, and for sanitize_directory_file_path the
\* drive-letter rule of a drive-letter platform is an earlier rule too.
C10_ControlRejected ==
    HasNulOrControl(a) =>
        /\ pc = "is_safe" => out = FALSE
        /\ pc = "validated" =>
            /\ ~out.ok
            /\ (~RuleEmpty(a) /\ ~RuleTraversal(a))
                => out.err.kind = "InvalidCharacters"
        /\ pc = "sanitized" =>
            /\ ~out.ok
            /\ (~RuleEmpty(a) /\ ~RuleTraversal(a) /\ ~RuleDriveLetter(a))
                => out.err.kind = "InvalidCharacters"

C10_Witness ==
    /\ pc = "sanitized"
    /\ windows
    /\ \E i \in 2..Len(a) : a[i] = Nul
    /\ ~RuleDriveLetter(a)
    /\ ~out.ok
    /\ out.err.kind = "InvalidCharacters"

\* C11: a string with the substring ".." anywhere, as a segment or inside
\* a longer token, is unsafe for is_safe_path and PathTraversal for
\* validate_path and sanitize_directory_file_path.
C11_TraversalRejected ==
    RuleTraversal(a) =>
        /\ pc = "is_safe" => out = FALSE
        /\ pc \in {"validated", "sanitized"} => ResultKind(out) = "PathTraversal"

C11_Witness ==
    /\ pc = "sanitized"
    /\ windows
    /\ \E i \in 2..(Len(a) - 1) :
        /\ a[i] = Dot /\ a[i + 1] = Dot
        /\ ~IsSeparator(a[i - 1]) /\ a[i - 1] # Dot
    /\ ResultKind(out) = "PathTraversal"

\* C12: a path sanitize_directory_file_path returns is a normalized
\* relative path: no backslash, no empty segment, no leading '/', no "..",
\* no NUL or control character other than newline and tab, none of
\* < > | ? * ", no reserved component, and on a drive-letter platform no
\* ':' as second character.
C12_SanitizedShape ==
    (pc = "sanitized" /\ out.ok) =>
        LET p == out.value
        IN  /\ \A i \in 1..Len(p) : p[i] # Backslash
            /\ NoDoubleSlash(p)
            /\ p # <<>> => (p[1] # Slash /\ p[Len(p)] # Slash)
            /\ ~RuleTraversal(p)
            /\ ~RuleInvalidCharacters(p)
            /\ ~RuleReserved(p)
            /\ windows => ~(Len(p) > 1 /\ p[2] = Colon)

C12_Witness ==
    /\ pc = "sanitized"
    /\ out.ok
    /\ a[1] = Slash
    /\ \E i \in 1..Len(a) : a[i] = Backslash
    /\ Len(Segments(out.value)) = 1

\* C13: a path sanitize_directory_file_path returns is the normalization
\* of its input: "/x/y" gives "x/y", and a relative, normalized input is
\* returned unchanged.
C13_SanitizedIsNormalized ==
    (pc = "sanitized" /\ out.ok) =>
        /\ out.value = SlashJoined(Segments(a))
        /\ Segments(out.value) = Segments(a)
        /\ a = SlashJoined(Segments(a)) => out.value = a

C13_Witness ==
    /\ pc = "sanitized"
    /\ out.ok
    /\ a[1] = Slash
    /\ Len(Segments(a)) = 2
    /\ out.value = SubSeq(a, 2, Len(a))

\* The sanitizer's checks in their order.
ExpectedSanitizeViolation(s) ==
    IF RuleEmpty(s) THEN "EmptyPath"
    ELSE IF RuleTraversal(s) THEN "PathTraversal"
    ELSE IF RuleDriveLetter(s) THEN "DriveLetterPath"
    ELSE IF RuleInvalidCharacters(s) THEN "InvalidCharacters"
    ELSE IF RuleReserved(s) THEN "ReservedFilename"
    ELSE "Ok"

\* C14: sanitize_directory_file_path reports the first check that fires,
\* in the order EmptyPath, PathTraversal, (leading-separator strip,)
\* DriveLetterPath on a drive-letter platform, InvalidCharacters,
\* ReservedFilename; "/../etc" is PathTraversal.
C14_SanitizeOrder ==
    pc = "sanitized" =>
        /\ ResultKind(out) = ExpectedSanitizeViolation(a)
        /\ (Len(a) > 0 /\ a[1] = Slash /\ HasSegment(a, <<Dot, Dot>>))
            => ResultKind(out) = "PathTraversal"

C14_Witness ==
    /\ pc = "sanitized"
    /\ Len(a) > 0
    /\ a[1] = Slash
    /\ HasSegment(a, <<Dot, Dot>>)
    /\ ResultKind(out) = "PathTraversal"

\* ASCII letters, digits and '_'.
IsWordChar(ch) ==
    ch \in 97..122 \/ ch \in 65..90 \/ ch \in 48..57 \/ ch = 95

\* [a-zA-Z0-9_][a-zA-Z0-9_/-]*[a-zA-Z0-9_]
SafePattern(s) ==
    /\ Len(s) >= 2
    /\ \A i \in 1..Len(s) : IsWordChar(s[i]) \/ s[i] = Slash \/ s[i] = 45
    /\ IsWordChar(s[1])
    /\ IsWordChar(s[Len(s)])

PathSegmentEnd(s, i) ==
    CHOOSE j \in i..Len(s) :
        /\ \A k \in i..j : s[k] # Slash
        /\ (j = Len(s) \/ s[j + 1] = Slash)

RECURSIVE PathSegmentsFrom(_, _)
PathSegmentsFrom(s, i) ==
    IF i > Len(s) THEN <<>>
    ELSE IF s[i] = Slash THEN PathSegmentsFrom(s, i + 1)
    ELSE <<SubSeq(s, i, PathSegmentEnd(s, i))>>
            \o PathSegmentsFrom(s, PathSegmentEnd(s, i) + 1)

PathSegments(s) == PathSegmentsFrom(s, 1)

IsPrefixOf(xs, ys) == Len(xs) <= Len(ys) /\ SubSeq(ys, 1, Len(xs)) = xs

\* The segments of p after those of root, for a p that starts with root.
SegmentsBelow(root, p) ==
    SubSeq(PathSegments(p), Len(PathSegments(root)) + 1, Len(PathSegments(p)))

HasParentSegment(segs) == \E k \in 1..Len(segs) : segs[k] = <<Dot, Dot>>

Returned == pc = "repo_returned"

\* The raw file path passes the sanitizer.
RawPasses == sanitize_directory_file_path(file_path).ok

\* The filesystem resolves the root.
RootResolves == fs[workdir].ok

\* C16: if safe_repository_join returns Ok(p), then p starts, as a string and
\* segment by segment, with the canonical root, and no segment of p after the
\* root's is "..": whatever the target, a leading '/' or ".." in it included.
C16_Containment ==
    (Returned /\ out.ok) =>
        /\ RootResolves
        /\ IsPrefixOf(fs[workdir].value, out.value)
        /\ IsPrefixOf(PathSegments(fs[workdir].value), PathSegments(out.value))
        /\ ~HasParentSegment(SegmentsBelow(fs[workdir].value, out.value))

\* An Ok result for a target with a leading '/' and a root that is a link.
C16_Witness ==
    /\ Returned
    /\ out.ok
    /\ Len(target_path) > 1
    /\ target_path[1] = Slash
    /\ fs[workdir].value # workdir

\* C17: a successful safe_repository_join returns the segments of the
\* canonical root, then the segments of the target, then the segments of the
\* raw file path, as one absolute path without empty segments inside; a raw
\* path with a leading '/' lands under root/target.
C17_Construction ==
    (Returned /\ out.ok) =>
        /\ PathSegments(out.value) =
               PathSegments(fs[workdir].value) \o Segments(target_path)
                   \o Segments(file_path)
        /\ out.value[1] = Slash
        /\ NoDoubleSlash(out.value)

\* An Ok result for a raw path with a leading '/', under a target.
C17_Witness ==
    /\ Returned
    /\ out.ok
    /\ Len(file_path) > 1
    /\ file_path[1] = Slash
    /\ Segments(target_path) # <<>>
    /\ Segments(file_path) # <<>>

\* C18: when the sanitizer rejects the raw file path, safe_repository_join
\* returns the sanitizer's error itself, and the root has not been
\* canonicalized: a root that cannot be resolved does not turn it into IoError.
C18_SanitizerErrorFirst ==
    Returned =>
        LET sanitized == sanitize_directory_file_path(file_path)
        IN  ~sanitized.ok =>
                /\ ResultKind(out) = ResultKind(sanitized)
                /\ out = sanitized
                /\ canon_calls = 0

\* A rejected raw path with a root that cannot be resolved.
C18_Witness ==
    /\ Returned
    /\ ~RawPasses
    /\ ~RootResolves
    /\ ~out.ok
    /\ out.err.kind # "IoError"

\* C19: when the raw file path passes the sanitizer and the root cannot be
\* canonicalized, safe_repository_join returns Err(IoError) carrying the
\* platform's error, after exactly one canonicalization; canonicalization is
\* never attempted twice in a call.
C19_IoErrorOnce ==
    /\ canon_calls <= 1
    /\ (Returned /\ ~RootResolves /\ RawPasses) =>
           /\ ~out.ok
           /\ out.err.kind = "IoError"
           /\ out.err.message.error = fs[workdir].err
           /\ canon_calls = 1

\* A root without permission, a raw path that passes.
C19_Witness ==
    /\ Returned
    /\ RawPasses
    /\ ~RootResolves
    /\ fs[workdir].err = "PermissionDenied"
    /\ ~out.ok

\* C20: when the raw file path passes the sanitizer and the root is
\* canonicalized, safe_repository_join returns PathTraversal whenever a segment
\* of the constructed path after the root's is "..", which is the case
\* whenever the target has a ".." segment, and returns Ok only when there is
\* no such segment.
C20_StructuralRecheck ==
    (Returned /\ RawPasses /\ RootResolves) =>
        LET below == SegmentsBelow(fs[workdir].value, frame.final_path)
        IN  /\ HasParentSegment(below) => ResultKind(out) = "PathTraversal"
            /\ HasSegment(target_path, <<Dot, Dot>>) => HasParentSegment(below)
            /\ out.ok => ~HasParentSegment(below)
            /\ out.ok => out.value = frame.final_path

\* A target with a ".." segment, refused after construction.
C20_Witness ==
    /\ Returned
    /\ RawPasses
    /\ RootResolves
    /\ HasSegment(target_path, <<Dot, Dot>>)
    /\ Segments(file_path) # <<>>
    /\ ResultKind(out) = "PathTraversal"

(***************************************************************************)
(* The values the operations return.                                       *)
(***************************************************************************)
IsString(x) == DOMAIN x = 1..Len(x) /\ \A i \in 1..Len(x) : x[i] \in Nat

SevenKinds ==
    { "EmptyPath", "PathTraversal", "InvalidCharacters", "ReservedFilename",
      "DriveLetterPath", "ConstructionFailed", "IoError" }

IsResult(r) ==
    /\ "ok" \in DOMAIN r
    /\ r.ok \in BOOLEAN
    /\ IF r.ok THEN DOMAIN r = {"ok", "value"}
       ELSE DOMAIN r = {"ok", "err"} /\ r.err.kind \in SevenKinds

\* C21: every operation returns a value of its type on every input:
\* normalize and join_and_normalize a path, is_safe_path a boolean,
\* validate_path, sanitize_directory_file_path and safe_repository_join Ok or
\* an Err whose kind is one of the seven; ValidationFailed never appears.
C21_TotalSevenKinds ==
    /\ pc \in {"normalized", "renormalized", "joined_bc", "joined_a_bc",
               "joined_ab", "joined_ab_c"} => IsString(out)
    /\ pc = "is_safe" => out \in BOOLEAN
    /\ pc = "validated" => IsResult(out) /\ (out.ok => out.value = Unit)
    /\ pc = "sanitized" => IsResult(out) /\ (out.ok => IsString(out.value))
    /\ pc = "repo_returned" => IsResult(out) /\ (out.ok => IsString(out.value))

\* Errors of both families are returned: the guarded join's IoError here.
C21_Witness ==
    /\ pc = "repo_returned"
    /\ ~out.ok
    /\ out.err.kind = "IoError"

(***************************************************************************)
(* The payload of a violation.                                             *)
(***************************************************************************)
CarriesPath(kind) ==
    kind \in {"PathTraversal", "InvalidCharacters", "ReservedFilename",
              "DriveLetterPath"}

\* The violation names a segment of s that is a reserved name.
NamesOffendingSegment(err, s) ==
    /\ \E k \in 1..Len(Segments(s)) : Segments(s)[k] = err.filename
    /\ IsReservedSegment(err.filename)

\* The payload the specification asks of a violation returned for input s.
PayloadAsSpecified(r, s) ==
    (~r.ok /\ CarriesPath(r.err.kind)) =>
        /\ r.err.path = s
        /\ r.err.kind = "ReservedFilename" => NamesOffendingSegment(r.err, s)

\* C22: a PathTraversal, InvalidCharacters, ReservedFilename or
\* DriveLetterPath violation of validate_path or sanitize_directory_file_path
\* carries the input exactly as passed in, and a ReservedFilename also the
\* offending component.
C22_PayloadIsInput ==
    pc \in {"validated", "sanitized"} => PayloadAsSpecified(out, a)

\* The sanitizer's violations carry the payload as specified.
C22_SanitizerPayload ==
    pc = "sanitized" => PayloadAsSpecified(out, a)

(***************************************************************************)
(* Joining two accepted paths.                                             *)
(***************************************************************************)
HasDotDot(s) == \E i \in 1..(Len(s) - 1) : s[i] = Dot /\ s[i + 1] = Dot

\* The joined string is accepted and has neither ".." nor "//".
JoinedIsSafe == out = TRUE /\ ~HasDotDot(prev) /\ NoDoubleSlash(prev)

AloneResult(t, f) ==
    safe_repository_join(f, workdir[t], target_path[t], file_path[t])

\* C24: under every interleaving of the calls and of filesystem changes, a
\* call that has returned has canonicalized at most once, and its result is
\* the one the same call gives when it runs alone on the filesystem that was
\* in place at its canonicalization (on any filesystem, when it returned
\* before canonicalizing).
C24_CallsIndependent ==
    \A t \in Threads :
        /\ canon_calls[t] <= 1
        /\ pc[t] = "repo_returned" =>
               IF canon_calls[t] = 1
               THEN out[t] = AloneResult(t, prev[t])
               ELSE \A f \in ConcFilesystems : out[t] = AloneResult(t, f)

\* Two calls with the same arguments have returned different paths, because
\* the filesystem changed between their canonicalizations.
C24_Witness ==
    \E t, u \in Threads :
        /\ pc[t] = "repo_returned" /\ pc[u] = "repo_returned"
        /\ workdir[t] = workdir[u]
        /\ target_path[t] = target_path[u]
        /\ file_path[t] = file_path[u]
        /\ canon_calls[t] = 1 /\ canon_calls[u] = 1
        /\ prev[t] # prev[u]
        /\ out[t].ok /\ out[u].ok
        /\ out[t] # out[u]

(***************************************************************************)
(* The drive-letter rule.                                                  *)
(***************************************************************************)
\* The normalized form of s has more than one character and ':' as second.
ColonSecond(s) ==
    LET normal == SlashJoined(Segments(s))
    IN  Len(normal) > 1 /\ normal[2] = Colon

\* C25: with drive-letter semantics, sanitize_directory_file_path returns
\* DriveLetterPath for every non-empty input without ".." whose normalized form
\* has more than one character and ':' as the second, whatever characters or
\* reserved names follow; without drive-letter semantics it never returns
\* DriveLetterPath.
C25_DriveLetterRule ==
    pc = "sanitized" =>
        /\ (windows /\ ~RuleEmpty(a) /\ ~HasDotDot(a) /\ ColonSecond(a))
               => ResultKind(out) = "DriveLetterPath"
        /\ ~windows => ResultKind(out) # "DriveLetterPath"
        /\ ResultKind(out) = "DriveLetterPath" => ColonSecond(a)

\* "a:<" with drive-letter semantics: both the drive-letter rule and the
\* character rule match, DriveLetterPath is reported.
C25_Witness ==
    /\ pc = "sanitized"
    /\ windows
    /\ ColonSecond(a)
    /\ \E i \in 1..Len(a) : a[i] = 60
    /\ ResultKind(out) = "DriveLetterPath"

(***************************************************************************)
(* The validator's verdict and the sanitizer's.                            *)
(***************************************************************************)
MixesSeparators(s) ==
    /\ \E i \in 1..Len(s) : s[i] = Slash
    /\ \E i \in 1..Len(s) : s[i] = Backslash

\* C26: without drive-letter semantics, sanitize_directory_file_path returns
\* Ok for every string that is_safe_path accepts.
C26_SafeImpliesSanitized ==
    (pc = "sanitized" /\ ~windows /\ is_safe_path(a)) => out.ok

\* The claim holds on every input that does not have both '/' and '\'.
C26_UnmixedSafeImpliesSanitized ==
    (pc = "sanitized" /\ ~windows /\ is_safe_path(a) /\ ~MixesSeparators(a))
        => out.ok

(***************************************************************************)
(* The sanitized path is not blank; the guarded join never fails to        *)
(* construct.                                                              *)
(***************************************************************************)
\* C27: if sanitize_directory_file_path returns Ok(p), then p is non-empty and
\* has a character that is not whitespace.
C27_SanitizedNotBlank ==
    (pc = "sanitized" /\ out.ok) => ~RuleEmpty(out.value)

\* The claim holds on every input that has a segment with a character that is
\* not whitespace.
C27_NotBlankGivenSegment ==
    (/\ pc = "sanitized"
     /\ out.ok
     /\ \E k \in 1..Len(Segments(a)) : ~RuleEmpty(Segments(a)[k]))
        => ~RuleEmpty(out.value)
\* C28: without drive-letter semantics safe_repository_join never returns
\* ConstructionFailed: the normalized target and the sanitized file path never
\* start with '/', so the constructed path starts with the canonical root.
C28_NeverConstructionFailed ==
    Returned =>
        /\ ResultKind(out) # "ConstructionFailed"
        /\ (RawPasses /\ RootResolves) =>
               /\ ~starts_with(normalize_path_buf(target_path), Slash)
               /\ ~starts_with(frame.sanitized_file_path, Slash)
               /\ IsPrefixOf(fs[workdir].value, frame.final_path)
               /\ IsPrefixOf(PathSegments(fs[workdir].value),
                             PathSegments(frame.final_path))

\* A target and a file path that both begin with '/', joined under "/r".
C28_Witness ==
    /\ Returned
    /\ RawPasses /\ RootResolves
    /\ starts_with(target_path, Slash)
    /\ starts_with(file_path, Slash)
    /\ fs[workdir].value = <<47, 114>>
    /\ out.ok

====
